---- MODULE Spec2Model ----
(***************************************************************************)
(* WhatTheFork: the meal-logging chat pipeline of WTF.py                   *)
(* (chat_with_ollama, the daily calorie accumulator, the progress bar and  *)
(* the reset handlers), with the storage of database.py / models.py and    *)
(* the goal lookup of user_profile.py.                                     *)
(*                                                                         *)
(* Texts are sequences of tokens.  The model's extraction text is a        *)
(* sequence of prose, whitespace, brace, comma and "key": value tokens;    *)
(* assistant text is a sequence of stream fragments or one message record. *)
(***************************************************************************)
EXTENDS Integers, Sequences, FiniteSets, TLC

VARIABLES
    daily_calories,   \* WTF.py:15  running total of the day
    current_date,     \* WTF.py:16  the date the total belongs to
    daily_goal,       \* WTF.py:17  calorie goal
    today,            \* datetime.now().date(), the wall clock
    profile,          \* user_profile.json as read by UserProfile.load_profile
    foods,            \* rows of the Food table, in insertion order
    progress,         \* progress_output: the progress bar last published
    access,           \* the latest read or write of daily_calories: who, stored date, clock date
    click,            \* handlers of a reset_btn click that have not run yet
    env,              \* what the user and the models may send in this run, and how much
    modal,            \* profile modal: result_output and calculated_calories
    dev,              \* dev.py: the hot-reload server and the application processes
    sess              \* per browser session: the submission in progress and its transcript

vars == <<daily_calories, current_date, daily_goal, today, profile, foods,
          progress, access, click, env, modal, dev, sess>>

\* ---------------------------------------------------------------- bounds
MaxDay == 2
MaxTurns == 2
MaxChunks == 2
OneTurn == 1
ShortStream == 1
BarStep == 100
MaxBarUnits == 30
MaxSpawns == 6
MaxInterrupts == 2

\* ------------------------------------------------------- program constants
DefaultGoal == 2000
MaxNameLen == 50

\* ------------------------------------------------------------ JSON values
Num(n) == [t |-> "num", n |-> n]
Str == [t |-> "str", n |-> 0]
NA == [t |-> "N/A", n |-> 0]

\* ------------------------------------------------- extraction text tokens
Tok(c) == [tok |-> c, k |-> "", v |-> NA]
Pair(key, val) == [tok |-> "pair", k |-> key, v |-> val]
W == Tok("w")
WS == Tok("ws")
LB == Tok("{")
RB == Tok("}")
CM == Tok(",")

Cal450 == Pair("total_calories", Num(450))
Fat12 == Pair("total_fats_g", Num(12))
Pro20 == Pair("total_proteins_g", Num(20))
Carb55 == Pair("total_carbs_g", Num(55))

\* Replies of the extraction model that the submissions draw from.
RawTexts ==
    { <<>>,                                                   \* empty reply
      <<W, W>>,                                               \* prose, no brace span
      <<LB, W, RB>>,                                          \* brace span that is not JSON
      <<W, LB, Cal450, CM, Fat12, CM, Pro20, CM, Carb55, RB, W>>,
      <<W, LB, RB>>,                                          \* the empty object
      <<LB, Fat12, RB>>,                                      \* no total_calories
      <<LB, Pair("total_calories", Str), RB>> }               \* calories given as a string

\* Replies that hold one nutrition object inside prose, and a reply whose calorie
\* value is negative.
Object4 == <<LB, Cal450, CM, Fat12, CM, Pro20, CM, Carb55, RB>>
WrappedTexts ==
    { Object4,
      <<W>> \o Object4 \o <<W>>,
      <<W, WS, LB, WS, Carb55, CM, WS, Pro20, CM, Fat12, CM, Cal450, WS, RB, WS, W>>,
      Object4 \o <<W, RB, W>>,                       \* prose with a '}' after the object
      <<W, LB, W>> \o Object4 }                      \* prose with a '{' before the object
NegativeText == <<LB, Pair("total_calories", Num(-100)), RB>>

\* ------------------------------------------------------------------ text
Messages == {" ", "hi"}
Fragments == {"a", "b"}
Strip(m) == IF m \in {"", " "} THEN "" ELSE m

\* json_response_text and len(json_response_text.strip()) > 0
HasText(text) == \E i \in 1..Len(text) : text[i].tok # "ws"

SetMin(S) == CHOOSE x \in S : \A y \in S : x <= y
SetMax(S) == CHOOSE x \in S : \A y \in S : x >= y

\* re.search(r'\{.*\}', text, re.DOTALL): greedy, from the first '{' to the last '}'
Opens(text) == {i \in 1..Len(text) : text[i].tok = "{"}
Closes(text) == {i \in 1..Len(text) : text[i].tok = "}"}
HasSpan(text) ==
    /\ Opens(text) # {}
    /\ Closes(text) # {}
    /\ SetMax(Closes(text)) > SetMin(Opens(text))
JsonSpan(text) == SubSeq(text, SetMin(Opens(text)), SetMax(Closes(text)))

\* json.loads on a span: '{' , pairs separated by commas, '}' ; whitespace is skipped
IsWS(t) == t.tok = "ws"
NotWS(t) == ~IsWS(t)
Inner(span) == SelectSeq(SubSeq(span, 2, Len(span) - 1), NotWS)
\* a decoder that accepts every brace span
ValidJson_lenient(span) == TRUE
ValidJson(span) ==
    LET in == Inner(span) IN
    \/ in = <<>>
    \/ /\ Len(in) % 2 = 1
       /\ \A i \in 1..Len(in) :
            IF i % 2 = 1 THEN in[i].tok = "pair" ELSE in[i].tok = ","
\* the decoded dict: a later duplicate key wins
Decode(span) ==
    LET in == Inner(span)
        keys == {in[i].k : i \in {j \in 1..Len(in) : in[j].tok = "pair"}}
    IN  [k \in keys |->
            in[SetMax({i \in 1..Len(in) : in[i].tok = "pair" /\ in[i].k = k})].v]

\* dict.get(key, default)
Get(d, key, default) == IF key \in DOMAIN d THEN d[key] ELSE default

\* The outcome of WTF.py:185-214 on the extraction text, before storage:
\*   kind "none"    no text, or no brace span
\*   kind "invalid" a brace span that json.loads rejects
\*   kind "object"  a decoded dict
NoData == [k \in {} |-> NA]
ParseNutrition(text) ==
    IF ~HasText(text) \/ ~HasSpan(text) THEN [kind |-> "none", data |-> NoData]
    ELSE IF ~ValidJson(JsonSpan(text)) THEN [kind |-> "invalid", data |-> NoData]
    ELSE [kind |-> "object", data |-> Decode(JsonSpan(text))]

\* ---------------------------------------------------------- progress bar
\* a progress bar whose percentage is capped at 100
ProgressBar_capped(current_calories, goal) ==
    LET num == IF goal <= 0 THEN 0
               ELSE IF current_calories > goal THEN 100 ELSE current_calories * 100
        den == IF goal <= 0 \/ current_calories > goal THEN 1 ELSE goal
    IN  [ consumed |-> current_calories,
          goal |-> goal,
          pct_num |-> num,
          pct_den |-> den,
          color |-> "purple",
          width_num |-> num,
          width_den |-> den,
          status |-> IF num >= 100 * den THEN "goal reached" ELSE "remaining",
          amount |-> IF num >= 100 * den THEN 0 ELSE goal - current_calories ]
\* create_progress_bar_html: the percentage is kept exact as pct_num / pct_den
ProgressBar(current_calories, goal) ==
    LET num == IF goal <= 0 THEN 0 ELSE current_calories * 100
        den == IF goal <= 0 THEN 1 ELSE goal
        over100 == num > 100 * den
        atLeast100 == num >= 100 * den
        over120 == num > 120 * den
    IN  [ consumed |-> current_calories,
          goal |-> goal,
          pct_num |-> num,
          pct_den |-> den,
          color |-> IF over100 THEN "red" ELSE "purple",
          width_num |-> IF over100 THEN 100 ELSE num,
          width_den |-> IF over100 THEN 1 ELSE den,
          status |-> IF atLeast100 THEN (IF over120 THEN "over goal" ELSE "goal reached")
                     ELSE "remaining",
          amount |-> IF atLeast100 /\ over120 THEN current_calories - goal
                     ELSE IF atLeast100 THEN 0
                     ELSE goal - current_calories ]

\* --------------------------------------------------------------- profile
NoProfile == [keys |-> {}, target_calories |-> 0]
SavedProfile(target) == [keys |-> {"target_calories"}, target_calories |-> target]
Profiles == {NoProfile, SavedProfile(1800)}

\* get_user_daily_calories: profile.get('target_calories', 2000) if profile else 2000
get_user_daily_calories(p) ==
    IF p.keys # {} /\ "target_calories" \in p.keys THEN p.target_calories ELSE DefaultGoal

\* ---------------------------------------------------------- profile form
\* a gr.Number input: a number, or None when the field is empty
Val(v) == [given |-> TRUE, v |-> v]
None == [given |-> FALSE, v |-> 0]
\* `not x` for a number input
Falsy(x) == ~x.given \/ x.v = 0

\* name.strip() for the names the form is given
StripName(name) == IF name = " a " THEN "a" ELSE IF name = "  " THEN "" ELSE name

NameError == "Please enter a valid name (at least 2 characters)"
AgeError == "Please enter a valid age (10-120 years)"
HeightError == "Please enter a valid height (100-250 cm)"
WeightError == "Please enter a valid weight (30-300 kg)"

\* a validation that stops at the first violated rule
Errors_first(name, age, height, weight) ==
    IF name = "" \/ Len(StripName(name)) < 2 THEN <<NameError>>
    ELSE IF Falsy(age) \/ age.v < 10 \/ age.v > 120 THEN <<AgeError>>
    ELSE IF Falsy(height) \/ height.v < 100 \/ height.v > 250 THEN <<HeightError>>
    ELSE IF Falsy(weight) \/ weight.v < 300 \/ weight.v > 3000 THEN <<WeightError>>
    ELSE <<>>
\* user_profile.py:71-84; the weight is in tenths of a kilogram
Errors(name, age, height, weight) ==
    (IF name = "" \/ Len(StripName(name)) < 2 THEN <<NameError>> ELSE <<>>)
    \o (IF Falsy(age) \/ age.v < 10 \/ age.v > 120 THEN <<AgeError>> ELSE <<>>)
    \o (IF Falsy(height) \/ height.v < 100 \/ height.v > 250 THEN <<HeightError>> ELSE <<>>)
    \o (IF Falsy(weight) \/ weight.v < 300 \/ weight.v > 3000 THEN <<WeightError>> ELSE <<>>)

\* int(x) for the fraction n / d, d > 0: truncation towards zero
Trunc(n, d) == IF n >= 0 THEN n \div d ELSE -((-n) \div d)

\* UserProfile.calculate_bmr, in quarters of a calorie (weight in tenths of a kg):
\* 10 * weight_kg + 6.25 * height_cm - 5 * age + 5 or - 161
calculate_bmr(age, gender, height_cm, weight_d) ==
    4 * weight_d + 25 * height_cm - 20 * age + (IF gender = "male" THEN 20 ELSE -644)

\* activity_multipliers.get(activity_level, 1.55), in thousandths
ActivityMultiplier(activity_level) ==
    CASE activity_level = "sedentary" -> 1200
      [] activity_level = "light" -> 1375
      [] activity_level = "moderate" -> 1550
      [] activity_level = "active" -> 1725
      [] activity_level = "very_active" -> 1900
      [] OTHER -> 1550
\* a conversion to the nearest integer, halves to even
calculate_daily_calories_round(bmr, activity_level) ==
    LET n == bmr * ActivityMultiplier(activity_level)
        q == n \div 4000
        r == n % 4000
    IN  IF r > 2000 \/ (r = 2000 /\ q % 2 = 1) THEN q + 1 ELSE q
\* UserProfile.calculate_daily_calories: int(bmr * multiplier), bmr in quarters
calculate_daily_calories(bmr, activity_level) ==
    Trunc(bmr * ActivityMultiplier(activity_level), 4000)

\* goal_adjustments.get(goal_type, 1.0), in tenths
GoalAdjustment(goal_type) ==
    CASE goal_type = "maintain" -> 10
      [] goal_type = "lose_slow" -> 9
      [] goal_type = "lose_fast" -> 8
      [] goal_type = "gain_slow" -> 11
      [] goal_type = "gain_fast" -> 12
      [] OTHER -> 10

\* profile_data of submit_profile (user_profile.py:91-117), as save_profile writes it
ProfileData(name, age, gender, height, weight, activity, goal_type) ==
    LET bmr == calculate_bmr(age.v, gender, height.v, weight.v)
        base_calories == calculate_daily_calories(bmr, activity)
        final_calories == Trunc(base_calories * GoalAdjustment(goal_type), 10)
    IN  [ keys |-> {"name", "age", "gender", "height_cm", "weight_kg", "activity_level",
                    "goal_type", "bmr", "maintenance_calories", "target_calories",
                    "last_updated"},
          target_calories |-> final_calories,
          name |-> StripName(name),
          age |-> age.v,
          gender |-> gender,
          height_cm |-> height.v,
          weight_kg |-> weight.v,
          activity_level |-> activity,
          goal_type |-> goal_type,
          bmr |-> bmr,
          maintenance_calories |-> base_calories ]

\* the inputs of the modal when save_btn is clicked
Form(name, age, gender, height, weight, activity, goal_type) ==
    [ name |-> name, age |-> age, gender |-> gender, height |-> height,
      weight |-> weight, activity |-> activity, goal_type |-> goal_type ]
\* the modal: its inputs, and its outputs result_output and calculated_calories
NoResult ==
    [ form |-> Form("", Val(25), "male", Val(170), Val(700), "moderate", "maintain"),
      result |-> "none", errors |-> <<>>, calories |-> DefaultGoal ]

\* save_btn.click -> submit_profile: user_profile.py:68-144.  save tells how
\* save_profile went: "ok", "unopened" (open() raised, the file is as before) or
\* "truncated" (the write raised after open() emptied the file, which load_profile
\* then reads as no profile)
submit_profile(f, save) ==
    LET errors == Errors(f.name, f.age, f.height, f.weight)
        profile_data == ProfileData(f.name, f.age, f.gender, f.height, f.weight,
                                    f.activity, f.goal_type)
    IN  /\ IF errors # <<>>
           THEN /\ modal' = [form |-> f, result |-> "errors", errors |-> errors,
                             calories |-> 2000]
                /\ profile' = profile
           ELSE IF save = "ok"
           THEN /\ modal' = [form |-> f, result |-> "saved", errors |-> <<>>,
                             calories |-> profile_data.target_calories]
                /\ profile' = profile_data
           ELSE /\ modal' = [form |-> f, result |-> "save failed", errors |-> <<>>,
                             calories |-> 2000]
                /\ profile' = IF save = "truncated" THEN NoProfile ELSE profile
        /\ UNCHANGED <<env, dev, daily_calories, current_date, daily_goal, today, foods,
                       progress, access, click, sess>>

\* --------------------------------------------------------------- storage
\* models.Food has the columns name and calories only (id and created_at are
\* generated); the object built by save_food keeps no other keyword.
Food(name, calories, fats, proteins, carbs) == [name |-> name, calories |-> calories]

\* get_all_foods + WTF.py:346-356: reading food.proteins of a row raises, which the
\* try block turns into the "unable" text
MealsText(all_foods) ==
    IF all_foods = <<>> THEN "empty"
    ELSE IF \A i \in 1..Len(all_foods) :
              {"proteins", "carbs", "fats"} \subseteq DOMAIN all_foods[i]
         THEN "listed"
         ELSE "unable"

\* ------------------------------------------------------------ transcript
UserImage(message) ==
    IF Strip(message) # "" THEN [text |-> message, tag |-> "[img]"]
    ELSE [text |-> "", tag |-> "[img Food image]"]
UserError(message) ==
    IF Strip(message) # "" THEN [text |-> message, tag |-> "[img Error]"]
    ELSE [text |-> "", tag |-> "[img Error]"]
UserText(message) == [text |-> message, tag |-> ""]
NoUser == [text |-> "", tag |-> "none"]

Turn(user, assistant) == [user |-> user, assistant |-> assistant]
\* history[-1] = (user, assistant)
SetLast(history, user, assistant) ==
    [history EXCEPT ![Len(history)] = Turn(user, assistant)]

ProcessingFailed == <<"Processing failed: e">>
TroubleProcessing == <<"Sorry, I had trouble processing that image: e">>
TroubleAnalyzing == <<"Sorry, I had trouble analyzing the image: e">>
TroubleResponding == <<"Sorry, I had trouble responding to that: e">>
EncounteredError == <<"Sorry, I encountered an error: e">>
FailureTexts ==
    {ProcessingFailed, TroubleProcessing, TroubleAnalyzing, TroubleResponding,
     EncounteredError}

\* --------------------------------------------------------------- prompts
NoPrompt ==
    [ kind |-> "none", message |-> "", analysis |-> <<>>,
      calories |-> NA, fats |-> NA, proteins |-> NA, carbs |-> NA,
      meal_added |-> 0, total_today |-> 0, goal |-> 0, meals |-> "" ]

\* a narrative prompt that leaves the extraction text out
NarrativePrompt_noanalysis(message, analysis, parsed, meal_calories, total, goal) ==
    [ NoPrompt EXCEPT
      !.kind = IF Strip(message) # "" THEN "message+fallback" ELSE "image+fallback",
      !.message = IF Strip(message) # "" THEN message ELSE "" ]
\* WTF.py:226-294: the four narrative templates
NarrativePrompt(message, analysis, parsed, meal_calories, total, goal) ==
    LET data == parsed.data
        truthy == parsed.kind = "object" /\ DOMAIN data # {}
    IN  IF truthy
        THEN [ kind |-> IF Strip(message) # "" THEN "message+data" ELSE "image+data",
               message |-> IF Strip(message) # "" THEN message ELSE "",
               analysis |-> analysis,
               calories |-> Get(data, "total_calories", NA),
               fats |-> Get(data, "total_fats_g", NA),
               proteins |-> Get(data, "total_proteins_g", NA),
               carbs |-> Get(data, "total_carbs_g", NA),
               meal_added |-> meal_calories,
               total_today |-> total,
               goal |-> goal,
               meals |-> "" ]
        ELSE [ NoPrompt EXCEPT
               !.kind = IF Strip(message) # "" THEN "message+fallback" ELSE "image+fallback",
               !.message = IF Strip(message) # "" THEN message ELSE "",
               !.analysis = analysis ]

\* WTF.py:359-370: the conversational prompt
ConversationalPrompt(message, total, goal, meals_text) ==
    [ NoPrompt EXCEPT
      !.kind = "conversational",
      !.message = message,
      !.total_today = total,
      !.goal = goal,
      !.meals = meals_text ]

\* ------------------------------------------------------------ meal name
\* replies of the naming model: the text without its quotes, the number of quote
\* characters around it, and the length of the whole reply after strip()
NameReply(text, quotes, len) == [text |-> text, quotes |-> quotes, len |-> len]
NameReplies ==
    { NameReply("Pizza", 0, 5), NameReply("Pizza", 2, 7), NameReply("", 0, 0),
      NameReply("", 2, 2), NameReply("Long", 0, 51) }
Placeholder == "Meal_timestamp"
\* WTF.py:169-173
CleanName(reply) ==
    IF reply.text = "" \/ reply.len - reply.quotes > MaxNameLen THEN Placeholder
    ELSE reply.text

\* ------------------------------------------------------------ dev server
\* dev.py: where main() stands, the child the name `process` is bound to (0: none),
\* the application processes alive, how many were started, how many keyboard
\* interrupts were delivered
\* pc: start | forked_first | watching | waiting | respawn | forked
\*     | interrupted | interrupted_waiting | goodbye | crashed
NoServer == [pc |-> "start", process |-> 0, alive |-> {}, spawned |-> 0, interrupts |-> 0]

\* --------------------------------------------------------------- sessions
\* pc: idle | extracting | naming | image_appended | narrating
\*     | text_appended | conversing | complete | failed
Terminal == {"idle", "complete", "failed"}
Streaming == {"narrating", "conversing"}
InFlight == {"extracting", "naming", "narrating", "conversing"}

IdleSession ==
    [ pc |-> "idle",
      message |-> "",
      initial_analysis |-> <<>>,
      user_message |-> NoUser,
      ai_response |-> <<>>,
      history |-> <<>>,          \* the list chat_with_ollama works on
      shown |-> <<>>,            \* the chatbot value last published by a yield
      prompt |-> NoPrompt,
      nturns |-> 0,
      \* bookkeeping of the turn in progress
      calls |-> <<>>,            \* model calls issued, in order
      base |-> 0,                \* length of the transcript when the turn began
      foods_base |-> 0,          \* number of stored rows when the turn began
      pre_total |-> 0,           \* daily_calories when the submission arrived
      start_total |-> 0,         \* daily_calories after the day check of the turn
      rolled |-> FALSE,          \* the day check of the turn reset the total
      parsed |-> "",             \* outcome of the extraction parse: none | invalid | object
      loaded |-> 0,              \* daily_calories as loaded by `+=`, before its store
      arrived |-> <<>>,          \* stream chunks received, in order
      published |-> 0 ]          \* snapshots published while streaming

\* a generator that never returns: the turn stays where it was
Done_stuck(me, pc, h) == [me EXCEPT !.history = h, !.shown = h]
\* the generator returns: its locals are gone, the transcript it published stays
Done(me, pc, h) ==
    [IdleSession EXCEPT !.pc = pc, !.history = h, !.shown = h, !.nturns = me.nturns]

Access(op) == [op |-> op, stored |-> current_date, now |-> today]

\* the widest run: every message, reply and fragment of the sets above
FullEnv ==
    [ messages |-> Messages, raws |-> RawTexts, replies |-> NameReplies,
      fragments |-> Fragments \cup {""}, db |-> BOOLEAN,
      turns |-> MaxTurns, chunks |-> MaxChunks, days |-> MaxDay ]

\* the state after construction, with the given browser tabs open
StartTabs(e, tabs) ==
    /\ env = e
    /\ daily_calories = 0
    /\ today = 1
    /\ current_date = 1
    /\ profile = NoProfile
    /\ daily_goal = get_user_daily_calories(profile)
    /\ foods = <<>>
    /\ progress = ProgressBar(0, daily_goal)
    /\ access = [op |-> "init", stored |-> 1, now |-> 1]
    /\ click = {}
    /\ modal = NoResult
    /\ dev = NoServer
    /\ sess = [s \in tabs |-> IdleSession]

Start(e) == StartTabs(e, {1})

Init == Start(FullEnv)

Sessions == DOMAIN sess

\* ------------------------------------------------------------- day check
\* reset_daily_calories_if_new_day, as the pair (daily_calories, current_date) it leaves
\* a day check that advances the date and keeps the total
reset_daily_calories_if_new_day_keep ==
    [daily_calories |-> daily_calories, current_date |-> today]
reset_daily_calories_if_new_day ==
    IF today # current_date
    THEN [daily_calories |-> 0, current_date |-> today]
    ELSE [daily_calories |-> daily_calories, current_date |-> current_date]

\* the part of a submission common to all paths: handle_multimodal_submit 699-707
\* and chat_with_ollama 81-86
Begin(s, message) ==
    [ sess[s] EXCEPT
      !.message = message,
      !.history = sess[s].shown,
      !.initial_analysis = <<>>,
      !.user_message = NoUser,
      !.ai_response = <<>>,
      !.prompt = NoPrompt,
      !.nturns = sess[s].nturns + 1,
      !.calls = <<>>,
      !.base = Len(sess[s].shown),
      !.foods_base = Len(foods),
      !.pre_total = daily_calories,
      !.start_total = reset_daily_calories_if_new_day.daily_calories,
      !.rolled = (today # current_date),
      !.parsed = "",
      !.arrived = <<>>,
      !.published = 0 ]

CanSubmit(s) ==
    /\ click = {}
    /\ sess[s].pc \in Terminal
    /\ sess[s].nturns < env.turns

\* a yield of chat_with_ollama as handle_multimodal_submit 707-710 passes it on:
\* the transcript is published and the progress bar rendered from the globals
Publish(total, date) ==
    /\ progress' = ProgressBar(total, daily_goal)
    /\ access' = [op |-> "render", stored |-> date, now |-> today]

\* image submission, image decoded: the extraction request is issued (WTF.py:89-142)
SubmitImage(s, message) ==
    /\ CanSubmit(s)
    /\ daily_calories' = reset_daily_calories_if_new_day.daily_calories
    /\ current_date' = reset_daily_calories_if_new_day.current_date
    /\ sess' = [sess EXCEPT ![s] =
                  [Begin(s, message) EXCEPT !.pc = "extracting", !.calls = <<"extraction">>]]
    /\ access' = [op |-> "daycheck", stored |-> today, now |-> today]
    /\ UNCHANGED <<env, dev, modal, daily_goal, today, profile, foods, progress, click>>

\* image submission, the image cannot be opened: WTF.py:95, 328-332
SubmitBrokenImage(s, message) ==
    /\ CanSubmit(s)
    /\ daily_calories' = reset_daily_calories_if_new_day.daily_calories
    /\ current_date' = reset_daily_calories_if_new_day.current_date
    /\ LET b == Begin(s, message)
           h == Append(b.history, Turn(UserError(message), TroubleProcessing))
       IN  sess' = [sess EXCEPT ![s] = Done(b, "failed", h)]
    /\ Publish(daily_calories', today)
    /\ UNCHANGED <<env, dev, modal, daily_goal, today, profile, foods, click>>

\* text-only submission with blank text: WTF.py:336-338
SubmitBlank(s, message) ==
    /\ CanSubmit(s)
    /\ Strip(message) = ""
    /\ daily_calories' = reset_daily_calories_if_new_day.daily_calories
    /\ current_date' = reset_daily_calories_if_new_day.current_date
    /\ sess' = [sess EXCEPT ![s] = Done(Begin(s, message), "complete", sess[s].shown)]
    /\ Publish(daily_calories', today)
    /\ UNCHANGED <<env, dev, modal, daily_goal, today, profile, foods, click>>

\* a text-only submission that starts the day's count again
SubmitText_zeroes(s, message, dbOK) ==
    /\ CanSubmit(s)
    /\ Strip(message) # ""
    /\ daily_calories' = 0
    /\ current_date' = reset_daily_calories_if_new_day.current_date
    /\ LET b == Begin(s, message)
           hOk == Append(b.history, Turn(UserText(message), <<>>))
       IN  sess' = [sess EXCEPT ![s] =
                [b EXCEPT !.pc = "text_appended",
                          !.user_message = UserText(message),
                          !.prompt = ConversationalPrompt(message, daily_calories',
                                         daily_goal, MealsText(foods)),
                          !.history = hOk, !.shown = hOk]]
    /\ Publish(daily_calories', today)
    /\ UNCHANGED <<env, dev, modal, daily_goal, today, profile, foods, click>>
\* text-only submission: WTF.py:340-383.  When get_all_foods raises, all_foods is
\* unbound at line 373 and the outer handler (413-417) ends the turn.
SubmitText(s, message, dbOK) ==
    /\ CanSubmit(s)
    /\ Strip(message) # ""
    /\ daily_calories' = reset_daily_calories_if_new_day.daily_calories
    /\ current_date' = reset_daily_calories_if_new_day.current_date
    /\ LET b == Begin(s, message)
           hFail == Append(b.history, Turn(UserText(message), EncounteredError))
           hOk == Append(b.history, Turn(UserText(message), <<>>))
       IN  sess' = [sess EXCEPT ![s] =
                IF dbOK
                THEN [b EXCEPT !.pc = "text_appended",
                               !.user_message = UserText(message),
                               !.prompt = ConversationalPrompt(message, daily_calories',
                                              daily_goal, MealsText(foods)),
                               !.history = hOk, !.shown = hOk]
                ELSE Done(b, "failed", hFail)]
    /\ Publish(daily_calories', today)
    /\ UNCHANGED <<env, dev, modal, daily_goal, today, profile, foods, click>>

\* an extraction failure after which the meal is stored and counted all the same
ExtractFail_stores(s) ==
    /\ sess[s].pc = "extracting"
    /\ LET h == Append(sess[s].history, Turn(UserError(sess[s].message), ProcessingFailed))
       IN  sess' = [sess EXCEPT ![s] = Done(sess[s], "failed", h)]
    /\ foods' = Append(foods, Food(Placeholder, Num(0), Num(0), Num(0), Num(0)))
    /\ Publish(daily_calories, current_date)
    /\ UNCHANGED <<env, dev, modal, daily_calories, current_date, daily_goal, today, profile, click>>
\* the extraction request raises: WTF.py:143-148
ExtractFail(s) ==
    /\ sess[s].pc = "extracting"
    /\ LET h == Append(sess[s].history, Turn(UserError(sess[s].message), ProcessingFailed))
       IN  sess' = [sess EXCEPT ![s] = Done(sess[s], "failed", h)]
    /\ Publish(daily_calories, current_date)
    /\ UNCHANGED <<env, dev, modal, daily_calories, current_date, daily_goal, today, profile, foods, click>>

\* the extraction request returns; the naming request is issued: WTF.py:150-168
ExtractReturn(s, raw) ==
    /\ sess[s].pc = "extracting"
    /\ sess' = [sess EXCEPT ![s].pc = "naming",
                            ![s].initial_analysis = raw,
                            ![s].calls = Append(sess[s].calls, "naming")]
    /\ UNCHANGED <<env, dev, modal, daily_calories, current_date, daily_goal, today, profile, foods,
                   progress, access, click>>

\* `daily_calories += meal_calories` (WTF.py:207-208): adding a value that is no
\* number raises TypeError
CanAdd(value) == value.t = "num"
\* an accumulator that counts the meal twice
AddCalories_twice(total, value) == total + value.n + value.n
AddCalories(total, value) == total + value.n

\* a storage call whose exception leaves the inner try block
Propagates_uncaught(db_error) == db_error
\* `except Exception as db_error: print(...)` (WTF.py:203-204): whether an exception
\* raised by save_food leaves the inner try block
Propagates(db_error) == FALSE

\* WTF.py:178-298 with the meal name known: parse the extraction text, store the
\* meal, add its calories, append the user's turn, build the narrative prompt, yield.
Analyse(s, meal_name, dbOK) ==
    LET me == sess[s]
        parsed == ParseNutrition(me.initial_analysis)
        data == parsed.data
        isObject == parsed.kind = "object"
        row == Food(meal_name,
                    Get(data, "total_calories", Num(0)),
                    Get(data, "total_fats_g", Num(0)),
                    Get(data, "total_proteins_g", Num(0)),
                    Get(data, "total_carbs_g", Num(0)))
        meal_calories == IF isObject THEN Get(data, "total_calories", Num(0)) ELSE Num(0)
        raises == isObject /\ (Propagates(~dbOK) \/ ~CanAdd(meal_calories))
        total == IF isObject /\ ~raises THEN AddCalories(daily_calories, meal_calories)
                 ELSE daily_calories
        hOk == Append(me.history, Turn(UserImage(me.message), <<>>))
        hErr == Append(me.history, Turn(UserError(me.message), TroubleProcessing))
    IN  /\ foods' = IF isObject /\ dbOK THEN Append(foods, row) ELSE foods
        /\ daily_calories' = total
        /\ sess' = [sess EXCEPT ![s] =
                IF raises
                THEN Done(me, "failed", hErr)
                ELSE [me EXCEPT !.pc = "image_appended",
                                !.parsed = parsed.kind,
                                !.user_message = UserImage(me.message),
                                !.prompt = NarrativePrompt(me.message, me.initial_analysis,
                                               parsed, meal_calories.n, total, daily_goal),
                                !.history = hOk, !.shown = hOk]]
        /\ progress' = ProgressBar(total, daily_goal)
        /\ access' = IF isObject THEN Access("add") ELSE Access("render")
        /\ UNCHANGED <<env, dev, modal, current_date, daily_goal, today, profile, click>>

\* `daily_calories += meal_calories` is a load of the global, an addition and a
\* store (WTF.py:208), with no lock around them.
\* an addition that is applied to the value the global holds at the store
InplaceAdd_locked(loaded, current, value) == AddCalories(current, value)
\* the value stored: what was loaded, plus the meal
InplaceAdd(loaded, current, value) == AddCalories(loaded, value)

\* the analysis of the turn reaches the addition: the text decodes to an object,
\* the storage exception (if any) is swallowed and the calories are a number
Adds(s, dbOK) ==
    LET parsed == ParseNutrition(sess[s].initial_analysis)
    IN  /\ parsed.kind = "object"
        /\ ~Propagates(~dbOK)
        /\ CanAdd(Get(parsed.data, "total_calories", Num(0)))

\* WTF.py:178-208 up to the load of daily_calories: parse, store the meal, load
LoadTotal(s, meal_name, dbOK) ==
    LET data == ParseNutrition(sess[s].initial_analysis).data
        row == Food(meal_name,
                    Get(data, "total_calories", Num(0)),
                    Get(data, "total_fats_g", Num(0)),
                    Get(data, "total_proteins_g", Num(0)),
                    Get(data, "total_carbs_g", Num(0)))
    IN  /\ sess[s].pc = "naming"
        /\ Adds(s, dbOK)
        /\ foods' = IF dbOK THEN Append(foods, row) ELSE foods
        /\ sess' = [sess EXCEPT ![s].pc = "adding", ![s].loaded = daily_calories]
        /\ access' = Access("load")
        /\ UNCHANGED <<env, dev, modal, daily_calories, current_date, daily_goal, today,
                       profile, progress, click>>

\* WTF.py:208-298 from the store of daily_calories: store, append the user's turn,
\* build the narrative prompt, yield
StoreTotal(s) ==
    LET me == sess[s]
        parsed == ParseNutrition(me.initial_analysis)
        meal_calories == Get(parsed.data, "total_calories", Num(0))
        total == InplaceAdd(me.loaded, daily_calories, meal_calories)
        hOk == Append(me.history, Turn(UserImage(me.message), <<>>))
    IN  /\ me.pc = "adding"
        /\ daily_calories' = total
        /\ sess' = [sess EXCEPT ![s] =
                [me EXCEPT !.pc = "image_appended",
                           !.parsed = parsed.kind,
                           !.user_message = UserImage(me.message),
                           !.prompt = NarrativePrompt(me.message, me.initial_analysis,
                                          parsed, meal_calories.n, total, daily_goal),
                           !.history = hOk, !.shown = hOk]]
        /\ progress' = ProgressBar(total, daily_goal)
        /\ access' = Access("add")
        /\ UNCHANGED <<env, dev, modal, current_date, daily_goal, today, profile, foods, click>>

\* the naming request returns: WTF.py:169-173, then 178-298
NameReturn(s, reply, dbOK) ==
    /\ sess[s].pc = "naming"
    /\ Analyse(s, CleanName(reply), dbOK)

\* a naming failure that ends the turn
NameFail_fails(s, dbOK) ==
    /\ sess[s].pc = "naming"
    /\ LET h == Append(sess[s].history, Turn(UserError(sess[s].message), TroubleProcessing))
       IN  sess' = [sess EXCEPT ![s] = Done(sess[s], "failed", h)]
    /\ Publish(daily_calories, current_date)
    /\ UNCHANGED <<env, dev, modal, daily_calories, current_date, daily_goal, today, profile,
                   foods, click>>
\* the naming request raises: WTF.py:174-176, then 178-298
NameFail(s, dbOK) ==
    /\ sess[s].pc = "naming"
    /\ Analyse(s, Placeholder, dbOK)

\* the narrative stream is requested: WTF.py:300-314
IssueNarrative(s) ==
    /\ sess[s].pc = "image_appended"
    /\ sess' = [sess EXCEPT ![s].pc = "narrating",
                            ![s].calls = Append(sess[s].calls, "narrative")]
    /\ UNCHANGED <<env, dev, modal, daily_calories, current_date, daily_goal, today, profile, foods,
                   progress, access, click>>

\* the conversational stream is requested: WTF.py:385-399
IssueConversational(s) ==
    /\ sess[s].pc = "text_appended"
    /\ sess' = [sess EXCEPT ![s].pc = "conversing",
                            ![s].calls = Append(sess[s].calls, "conversational")]
    /\ UNCHANGED <<env, dev, modal, daily_calories, current_date, daily_goal, today, profile, foods,
                   progress, access, click>>

\* a stream loop that puts the new fragment in front
Extend_front(ai_response, fragment) == <<fragment>> \o ai_response
\* ai_response += chunk['response']
Extend(ai_response, fragment) == Append(ai_response, fragment)

\* one chunk of a stream: WTF.py:316-321 and 401-406.  A chunk whose 'response' is
\* empty is skipped without a yield.
StreamChunk(s, fragment) ==
    /\ sess[s].pc \in Streaming
    /\ Len(sess[s].arrived) < env.chunks
    /\ IF fragment # ""
       THEN LET text == Extend(sess[s].ai_response, fragment)
                h == SetLast(sess[s].history, sess[s].user_message, text)
            IN  /\ sess' = [sess EXCEPT ![s].ai_response = text,
                                        ![s].history = h, ![s].shown = h,
                                        ![s].arrived = Append(sess[s].arrived, fragment),
                                        ![s].published = sess[s].published + 1]
                /\ Publish(daily_calories, current_date)
       ELSE /\ sess' = [sess EXCEPT ![s].arrived = Append(sess[s].arrived, fragment)]
            /\ UNCHANGED <<progress, access>>
    /\ UNCHANGED <<env, dev, modal, daily_calories, current_date, daily_goal, today, profile, foods, click>>

\* the stream is exhausted: the generator returns
StreamEnd(s) ==
    /\ sess[s].pc \in Streaming
    /\ sess' = [sess EXCEPT ![s] = Done(sess[s], "complete", sess[s].history)]
    /\ UNCHANGED <<env, dev, modal, daily_calories, current_date, daily_goal, today, profile, foods,
                   progress, access, click>>

\* the assistant text after a stream raised: WTF.py:323-325 and 408-410
FailureText(pc, ai_response) ==
    IF pc = "narrating" THEN TroubleAnalyzing ELSE TroubleResponding

\* a failure handler that appends the failure message as a turn of its own
StreamRaise_appends(s) ==
    /\ sess[s].pc \in Streaming
    /\ LET text == FailureText(sess[s].pc, sess[s].ai_response)
           h == Append(sess[s].history, Turn(sess[s].user_message, text))
       IN  sess' = [sess EXCEPT ![s] = Done(sess[s], "failed", h)]
    /\ Publish(daily_calories, current_date)
    /\ UNCHANGED <<env, dev, modal, daily_calories, current_date, daily_goal, today, profile, foods, click>>
\* the stream raises, at the request or at any chunk: WTF.py:323-326 and 408-411
StreamRaise(s) ==
    /\ sess[s].pc \in Streaming
    /\ LET text == FailureText(sess[s].pc, sess[s].ai_response)
           h == SetLast(sess[s].history, sess[s].user_message, text)
       IN  sess' = [sess EXCEPT ![s] = Done(sess[s], "failed", h)]
    /\ Publish(daily_calories, current_date)
    /\ UNCHANGED <<env, dev, modal, daily_calories, current_date, daily_goal, today, profile, foods, click>>

\* ----------------------------------------------------------------- clock
\* midnight passes
Tick ==
    /\ today < env.days
    /\ today' = today + 1
    /\ UNCHANGED <<env, dev, modal, daily_calories, current_date, daily_goal, profile, foods, progress,
                   access, click, sess>>

\* ---------------------------------------------------------- reset button
\* reset_btn has two click listeners (WTF.py:688-691 and 724-727); events are
\* handled one at a time, between submissions
Click ==
    /\ click = {}
    /\ \A s \in Sessions : sess[s].pc \in Terminal
    /\ click' = {"refresh_goal_from_profile", "handle_reset"}
    /\ UNCHANGED <<env, dev, modal, daily_calories, current_date, daily_goal, today, profile, foods,
                   progress, access, sess>>

\* refresh_goal_from_profile: WTF.py:670-675
RefreshGoal ==
    /\ "refresh_goal_from_profile" \in click
    /\ click' = click \ {"refresh_goal_from_profile"}
    /\ daily_goal' = get_user_daily_calories(profile)
    /\ progress' = ProgressBar(daily_calories, daily_goal')
    /\ access' = Access("refresh_goal_from_profile")
    /\ UNCHANGED <<env, dev, modal, daily_calories, current_date, today, profile, foods, sess>>

\* handle_reset -> reset_calories: WTF.py:420-423, 713-715
HandleReset ==
    /\ "handle_reset" \in click
    /\ click' = click \ {"handle_reset"}
    /\ daily_calories' = 0
    /\ progress' = ProgressBar(0, daily_goal)
    /\ access' = Access("reset_calories")
    /\ UNCHANGED <<env, dev, modal, current_date, daily_goal, today, profile, foods, sess>>

\* -------------------------------------------------------------- restart
\* the sum of the calories of the stored rows
RECURSIVE StoredCalories(_)
StoredCalories(rows) ==
    IF rows = <<>> THEN 0 ELSE Head(rows).calories.n + StoredCalories(Tail(rows))
\* a start that rebuilds the total from the stored rows
Restart_reconstructs ==
    /\ daily_calories' = StoredCalories(foods)
    /\ current_date' = today
    /\ daily_goal' = get_user_daily_calories(profile)
    /\ progress' = ProgressBar(daily_calories', daily_goal')
    /\ access' = [op |-> "init", stored |-> today, now |-> today]
    /\ click' = {}
    /\ modal' = NoResult
    /\ sess' = [s \in Sessions |-> [IdleSession EXCEPT !.nturns = sess[s].nturns]]
    /\ UNCHANGED <<env, dev, today, profile, foods>>
\* the process is stopped, at any point, and started again: the module globals are
\* set as at import (WTF.py:14-17), create_db_and_tables creates only what is
\* missing (database.py:8-11), the interface is built anew (731-740).  The profile
\* file and the database outlive the process; nturns counts the submissions of the
\* whole run.
Restart ==
    /\ daily_calories' = 0
    /\ current_date' = today
    /\ daily_goal' = get_user_daily_calories(profile)
    /\ progress' = ProgressBar(0, daily_goal')
    /\ access' = [op |-> "init", stored |-> today, now |-> today]
    /\ click' = {}
    /\ modal' = NoResult
    /\ sess' = [s \in Sessions |-> [IdleSession EXCEPT !.nturns = sess[s].nturns]]
    /\ UNCHANGED <<env, dev, today, profile, foods>>
\* ------------------------------------------------------------------ spec
Next ==
    \/ \E s \in Sessions, m \in env.messages : SubmitImage(s, m)
    \/ \E s \in Sessions, m \in env.messages : SubmitBrokenImage(s, m)
    \/ \E s \in Sessions, m \in env.messages : SubmitBlank(s, m)
    \/ \E s \in Sessions, m \in env.messages, dbOK \in env.db : SubmitText(s, m, dbOK)
    \/ \E s \in Sessions : ExtractFail(s)
    \/ \E s \in Sessions, raw \in env.raws : ExtractReturn(s, raw)
    \/ \E s \in Sessions, reply \in env.replies, dbOK \in env.db : NameReturn(s, reply, dbOK)
    \/ \E s \in Sessions, dbOK \in env.db : NameFail(s, dbOK)
    \/ \E s \in Sessions : IssueNarrative(s)
    \/ \E s \in Sessions : IssueConversational(s)
    \/ \E s \in Sessions, f \in env.fragments : StreamChunk(s, f)
    \/ \E s \in Sessions : StreamEnd(s)
    \/ \E s \in Sessions : StreamRaise(s)
    \/ Tick
    \/ Click
    \/ RefreshGoal
    \/ HandleReset

Spec == Init /\ [][Next]_vars

\* one submission, every extraction text, short narratives
ParseEnv ==
    [ messages |-> Messages, raws |-> RawTexts,
      replies |-> { NameReply("Pizza", 0, 5) },
      fragments |-> {"a"}, db |-> BOOLEAN,
      turns |-> OneTurn, chunks |-> ShortStream, days |-> MaxDay ]
InitParse == Start(ParseEnv)
SpecParse == InitParse /\ [][Next]_vars

\* one submission, streams of every fragment
StreamEnv ==
    [ messages |-> Messages,
      raws |-> { <<W, W>> },
      replies |-> { NameReply("Pizza", 0, 5) },
      fragments |-> Fragments \cup {""}, db |-> {TRUE},
      turns |-> OneTurn, chunks |-> MaxChunks, days |-> MaxDay ]
InitStream == Start(StreamEnv)
SpecStream == InitStream /\ [][Next]_vars

\* one submission, replies with an object inside prose or a negative calorie value
ReplyEnv ==
    [ messages |-> Messages, raws |-> WrappedTexts \cup {NegativeText},
      replies |-> { NameReply("Pizza", 0, 5) },
      fragments |-> {"a"}, db |-> {TRUE},
      turns |-> OneTurn, chunks |-> ShortStream, days |-> MaxDay ]
InitReply == Start(ReplyEnv)
SpecReply == InitReply /\ [][Next]_vars

\* the progress bar over a grid of totals and goals: the globals as the page finds
\* them when it is built, and the first rendering of the bar (WTF.py:574)
BarTotals == {k * BarStep : k \in -1..MaxBarUnits}
BarGoals == {k * BarStep : k \in 0..MaxBarUnits}
InitBar ==
    /\ env = FullEnv
    /\ daily_calories \in BarTotals
    /\ today = 1
    /\ current_date = 1
    /\ profile \in {NoProfile} \cup {SavedProfile(g) : g \in BarGoals}
    /\ daily_goal = get_user_daily_calories(profile)
    /\ foods = <<>>
    /\ progress = ProgressBar(0, DefaultGoal)
    /\ access = [op |-> "init", stored |-> 1, now |-> 1]
    /\ click = {}
    /\ modal = NoResult
    /\ dev = NoServer
    /\ sess = [s \in {1} |-> IdleSession]
Render ==
    /\ Publish(daily_calories, current_date)
    /\ UNCHANGED <<env, dev, modal, daily_calories, current_date, daily_goal, today, profile, foods,
                   click, sess>>
NextBar == Render
SpecBar == InitBar /\ [][NextBar]_vars

\* the profile modal on its own (create_profile_modal): forms around the limits of
\* the validation, with every outcome of the save
Names == {"", "a", " a ", "Al"}
ValidationForms ==
    { Form(n, a, "male", h, w, "moderate", "maintain") :
        n \in Names,
        a \in {None, Val(5), Val(9), Val(10), Val(120), Val(121)},
        h \in {Val(90), Val(99), Val(100), Val(250), Val(251)},
        w \in {Val(299), Val(300), Val(3000), Val(3001)} }
FormEnv == [forms |-> "validation", saves |-> {"ok", "unopened", "truncated"}]
InitForm == Start(FormEnv)

\* valid forms of every gender, activity and goal; the last activity and the last
\* goal are values outside the tables
Activities ==
    {"sedentary", "light", "moderate", "active", "very_active",
     "Sedentary (little/no exercise)"}
GoalTypes ==
    {"maintain", "lose_slow", "lose_fast", "gain_slow", "gain_fast",
     "Lose Weight Fast (-20%)"}
CalcForms ==
    { Form("Al", a, g, h, w, act, goal) :
        a \in {Val(30), Val(120)}, g \in {"male", "female"},
        h \in {Val(100), Val(180)}, w \in {Val(705), Val(800)},
        act \in Activities, goal \in GoalTypes }
CalcEnv == [forms |-> "calculation", saves |-> {"ok"}]
InitCalc == Start(CalcEnv)

\* forms for the goal: the smallest target a valid form can give, a common form, a
\* form whose activity is the label of the radio button, and a form that is rejected
GoalForms ==
    { Form("Al", Val(120), "female", Val(100), Val(300), "sedentary", "lose_fast"),
      Form("Al", Val(30), "male", Val(180), Val(705), "moderate", "maintain"),
      Form("Al", Val(30), "male", Val(180), Val(705), "Sedentary (little/no exercise)",
           "gain_fast"),
      Form("", Val(30), "male", Val(180), Val(705), "moderate", "maintain") }
GoalEnv == [forms |-> "goal", saves |-> {"ok", "unopened", "truncated"}]
InitGoal == Start(GoalEnv)

Forms ==
    CASE env.forms = "validation" -> ValidationForms
      [] env.forms = "goal" -> GoalForms
      [] OTHER -> CalcForms
NextProfile == \E f \in Forms, save \in env.saves : submit_profile(f, save)
SpecForm == InitForm /\ [][NextProfile]_vars
SpecCalc == InitCalc /\ [][NextProfile]_vars

\* the profile is saved while the application runs, and the reset button is clicked
NextGoal ==
    \/ NextProfile
    \/ Click
    \/ RefreshGoal
    \/ HandleReset
SpecGoal == InitGoal /\ [][NextGoal]_vars

\* two browser tabs submitting images at the same time, each handled by its own
\* worker: the steps of the two handlers interleave, and the addition to the
\* daily total is a load and a later store
RaceEnv ==
    [ messages |-> {"hi"},
      raws |-> { <<W, W>>, Object4 },
      replies |-> { NameReply("Pizza", 0, 5) },
      fragments |-> {""}, db |-> {TRUE},
      turns |-> OneTurn, chunks |-> ShortStream, days |-> MaxDay ]
InitRace == StartTabs(RaceEnv, {1, 2})
NextRace ==
    \/ \E s \in Sessions, m \in env.messages : SubmitImage(s, m)
    \/ \E s \in Sessions : ExtractFail(s)
    \/ \E s \in Sessions, raw \in env.raws : ExtractReturn(s, raw)
    \/ \E s \in Sessions, reply \in env.replies, dbOK \in env.db :
          LoadTotal(s, CleanName(reply), dbOK)
    \/ \E s \in Sessions, dbOK \in env.db : LoadTotal(s, Placeholder, dbOK)
    \/ \E s \in Sessions : StoreTotal(s)
    \/ \E s \in Sessions, reply \in env.replies, dbOK \in env.db :
          ~Adds(s, dbOK) /\ NameReturn(s, reply, dbOK)
    \/ \E s \in Sessions, dbOK \in env.db : ~Adds(s, dbOK) /\ NameFail(s, dbOK)
    \/ \E s \in Sessions : IssueNarrative(s)
    \/ \E s \in Sessions, f \in env.fragments : StreamChunk(s, f)
    \/ \E s \in Sessions : StreamEnd(s)
    \/ \E s \in Sessions : StreamRaise(s)
SpecRace == InitRace /\ [][NextRace]_vars

\* one tab under fair scheduling: a model call in flight returns or raises, a
\* handler that can go on does go on, and a stream delivers its next chunk, ends or
\* raises (its length is bounded by env.chunks)
LiveEnv ==
    [ messages |-> Messages,
      raws |-> { <<W, W>>, Object4 },
      replies |-> { NameReply("Pizza", 0, 5) },
      fragments |-> {"a"}, db |-> BOOLEAN,
      turns |-> OneTurn, chunks |-> ShortStream, days |-> MaxDay ]
InitLive == Start(LiveEnv)
ExtractionEnds(s) == ExtractFail(s) \/ \E raw \in env.raws : ExtractReturn(s, raw)
NamingEnds(s) ==
    \/ \E reply \in env.replies, dbOK \in env.db : NameReturn(s, reply, dbOK)
    \/ \E dbOK \in env.db : NameFail(s, dbOK)
StreamMoves(s) ==
    \/ \E f \in env.fragments : StreamChunk(s, f)
    \/ StreamEnd(s)
    \/ StreamRaise(s)
\* weak fairness of NamingEnds(s), with ENABLED written out: the analysis that
\* follows the naming request has no guard of its own, so the action is enabled
\* exactly while the request is in flight
NamingFair(s) == <>[](sess[s].pc = "naming") => []<><<NamingEnds(s)>>_vars
Fairness ==
    \A s \in {1} :
        /\ WF_vars(ExtractionEnds(s))
        /\ NamingFair(s)
        /\ WF_vars(IssueNarrative(s))
        /\ WF_vars(IssueConversational(s))
        /\ WF_vars(StreamMoves(s))
SpecLive == InitLive /\ [][Next]_vars /\ Fairness

\* one submission, every reply of the naming model
NameEnv ==
    [ messages |-> Messages,
      raws |-> { <<W, W>>, Object4, <<LB, Pair("total_calories", Str), RB>> },
      replies |-> NameReplies,
      fragments |-> {"a"}, db |-> BOOLEAN,
      turns |-> OneTurn, chunks |-> ShortStream, days |-> MaxDay ]
InitName == Start(NameEnv)
SpecName == InitName /\ [][Next]_vars
\* meals, profile saves and restarts of the process
RestartEnv ==
    [ messages |-> Messages,
      raws |-> { Object4 },
      replies |-> { NameReply("Pizza", 0, 5) },
      fragments |-> {""}, db |-> {TRUE},
      turns |-> OneTurn, chunks |-> ShortStream, days |-> MaxDay,
      forms |-> "restart", saves |-> {"ok"} ]
RestartForms == { Form("Al", Val(30), "male", Val(180), Val(705), "moderate", "maintain") }
InitRestart == Start(RestartEnv)
NextRestart ==
    \/ Next
    \/ \E f \in RestartForms, save \in env.saves : submit_profile(f, save)
    \/ Restart
SpecRestart == InitRestart /\ [][NextRestart]_vars
\* two submissions of every kind, with every failure path: the extraction request,
\* a calorie value that cannot be added, the stream, the meal history
TurnsEnv ==
    [ messages |-> Messages,
      raws |-> { Object4, <<LB, Pair("total_calories", Str), RB>> },
      replies |-> { NameReply("Pizza", 0, 5) },
      fragments |-> {"a"}, db |-> BOOLEAN,
      turns |-> MaxTurns, chunks |-> ShortStream, days |-> MaxDay ]
InitTurns == Start(TurnsEnv)
\* the submissions alone: no midnight, no reset click
NextTurns ==
    \/ \E s \in Sessions, m \in env.messages : SubmitImage(s, m)
    \/ \E s \in Sessions, m \in env.messages : SubmitBrokenImage(s, m)
    \/ \E s \in Sessions, m \in env.messages : SubmitBlank(s, m)
    \/ \E s \in Sessions, m \in env.messages, dbOK \in env.db : SubmitText(s, m, dbOK)
    \/ \E s \in Sessions : ExtractFail(s)
    \/ \E s \in Sessions, raw \in env.raws : ExtractReturn(s, raw)
    \/ \E s \in Sessions, reply \in env.replies, dbOK \in env.db : NameReturn(s, reply, dbOK)
    \/ \E s \in Sessions, dbOK \in env.db : NameFail(s, dbOK)
    \/ \E s \in Sessions : IssueNarrative(s)
    \/ \E s \in Sessions : IssueConversational(s)
    \/ \E s \in Sessions, f \in env.fragments : StreamChunk(s, f)
    \/ \E s \in Sessions : StreamEnd(s)
    \/ \E s \in Sessions : StreamRaise(s)
SpecTurns == InitTurns /\ [][NextTurns]_vars
\* several submissions over several days, with short replies
DaysEnv ==
    [ messages |-> Messages,
      raws |-> { <<W, LB, Cal450, CM, Fat12, CM, Pro20, CM, Carb55, RB, W>> },
      replies |-> { NameReply("Pizza", 0, 5) },
      fragments |-> {""}, db |-> {TRUE},
      turns |-> MaxTurns, chunks |-> ShortStream, days |-> MaxDay ]
InitDays == Start(DaysEnv)
SpecDays == InitDays /\ [][Next]_vars

\* ---------------------------------------------- reset button, step by step
\* The two listeners of reset_btn run as two events of their own, each on a worker
\* thread: the statements of refresh_goal_from_profile (WTF.py:672-675) and of
\* handle_reset -> reset_calories (421-423, 714-715) interleave, and the browser
\* shows the output that arrives last.  An event is [fn, at, out]: the handler,
\* how far it has run, and the progress bar it has built.
Event(fn, at, out) == [fn |-> fn, at |-> at, out |-> out]
ClickBoth ==
    /\ click = {}
    /\ \A s \in Sessions : sess[s].pc \in Terminal
    /\ click' = { Event("refresh_goal_from_profile", "start", progress),
                  Event("handle_reset", "start", progress) }
    /\ UNCHANGED <<env, dev, modal, daily_calories, current_date, daily_goal, today, profile,
                   foods, progress, access, sess>>
\* daily_goal = get_user_daily_calories()
RefreshAssign ==
    \E e \in click :
        /\ e.fn = "refresh_goal_from_profile" /\ e.at = "start"
        /\ daily_goal' = get_user_daily_calories(profile)
        /\ click' = (click \ {e}) \cup {[e EXCEPT !.at = "assigned"]}
        /\ UNCHANGED <<env, dev, modal, daily_calories, current_date, today, profile, foods,
                       progress, access, sess>>
\* daily_calories = 0
ResetAssign ==
    \E e \in click :
        /\ e.fn = "handle_reset" /\ e.at = "start"
        /\ daily_calories' = 0
        /\ access' = Access("reset_calories")
        /\ click' = (click \ {e}) \cup {[e EXCEPT !.at = "assigned"]}
        /\ UNCHANGED <<env, dev, modal, current_date, daily_goal, today, profile, foods,
                       progress, sess>>
\* create_progress_bar_html(daily_calories, daily_goal), in either handler
RenderBar ==
    \E e \in click :
        /\ e.at = "assigned"
        /\ click' = (click \ {e}) \cup
               {[e EXCEPT !.at = "rendered", !.out = ProgressBar(daily_calories, daily_goal)]}
        /\ access' = IF e.fn = "handle_reset" THEN access ELSE Access(e.fn)
        /\ UNCHANGED <<env, dev, modal, daily_calories, current_date, daily_goal, today, profile,
                       foods, progress, sess>>
\* the handler returns and its output reaches progress_output
ReturnBar ==
    \E e \in click :
        /\ e.at = "rendered"
        /\ progress' = e.out
        /\ click' = click \ {e}
        /\ UNCHANGED <<env, dev, modal, daily_calories, current_date, daily_goal, today, profile,
                       foods, access, sess>>

\* a meal, a profile save, and clicks on the reset button
ResetEnv ==
    [ messages |-> {"hi"},
      raws |-> { Object4 },
      replies |-> { NameReply("Pizza", 0, 5) },
      fragments |-> {""}, db |-> {TRUE},
      turns |-> OneTurn, chunks |-> ShortStream, days |-> MaxDay,
      forms |-> "restart", saves |-> {"ok"} ]
InitReset == Start(ResetEnv)
NextReset ==
    \/ \E s \in Sessions, m \in env.messages : SubmitImage(s, m)
    \/ \E s \in Sessions, raw \in env.raws : ExtractReturn(s, raw)
    \/ \E s \in Sessions, reply \in env.replies, dbOK \in env.db : NameReturn(s, reply, dbOK)
    \/ \E s \in Sessions : IssueNarrative(s)
    \/ \E s \in Sessions : StreamEnd(s)
    \/ \E f \in RestartForms, save \in env.saves : submit_profile(f, save)
    \/ ClickBoth
    \/ RefreshAssign
    \/ ResetAssign
    \/ RenderBar
    \/ ReturnBar
SpecReset == InitReset /\ [][NextReset]_vars
\* ----------------------------------------------------------- dev server
\* dev.py.  The application state is left alone here: each child is a WTF.py
\* process of its own.
app == <<daily_calories, current_date, daily_goal, today, profile, foods,
         progress, access, click, env, modal, sess>>

\* where a KeyboardInterrupt is caught by `except KeyboardInterrupt` (dev.py:25-46)
InTry == {"watching", "waiting", "respawn", "forked"}
\* where it reaches no handler: line 23 stands before the try, and the handler
\* (47-54) is not inside one
Unprotected == {"start", "forked_first", "interrupted", "interrupted_waiting"}

\* run_app() at dev.py:23: Popen has started the child; the name `process` is not
\* bound yet
SpawnFirst ==
    /\ dev.pc = "start"
    /\ dev' = [dev EXCEPT !.pc = "forked_first", !.alive = {1}, !.spawned = 1]
    /\ UNCHANGED app
\* `process = ...` at dev.py:23 or 43; the loop waits for changes
Bind ==
    /\ dev.pc \in {"forked_first", "forked"}
    /\ dev' = [dev EXCEPT !.pc = "watching", !.process = dev.spawned]
    /\ UNCHANGED app
\* watch() yields a set of changes; process.terminate(): dev.py:27-35
Change ==
    /\ dev.pc = "watching"
    /\ dev' = [dev EXCEPT !.pc = "waiting"]
    /\ UNCHANGED app
\* an application process exits: after SIGTERM, or by itself
ChildExits ==
    \E p \in dev.alive :
        /\ dev' = [dev EXCEPT !.alive = dev.alive \ {p}]
        /\ UNCHANGED app
\* process.wait(timeout=5) returns: the child has exited (dev.py:37)
WaitReturns ==
    /\ dev.pc = "waiting"
    /\ dev.process \notin dev.alive
    /\ dev' = [dev EXCEPT !.pc = "respawn"]
    /\ UNCHANGED app
\* TimeoutExpired: process.kill(); process.wait() (dev.py:38-40)
WaitTimesOut ==
    /\ dev.pc = "waiting"
    /\ dev.process \in dev.alive
    /\ dev' = [dev EXCEPT !.pc = "respawn", !.alive = dev.alive \ {dev.process}]
    /\ UNCHANGED app
\* run_app() at dev.py:43: Popen has started the replacement
Respawn ==
    /\ dev.pc = "respawn"
    /\ dev.spawned < MaxSpawns
    /\ dev' = [dev EXCEPT !.pc = "forked", !.alive = dev.alive \cup {dev.spawned + 1},
                          !.spawned = dev.spawned + 1]
    /\ UNCHANGED app
\* a keyboard interrupt is delivered to the server, wherever main() stands
Interrupt ==
    /\ dev.pc \in InTry \cup Unprotected
    /\ dev.interrupts < MaxInterrupts
    /\ dev' = [dev EXCEPT !.pc = IF dev.pc \in InTry THEN "interrupted" ELSE "crashed",
                          !.interrupts = dev.interrupts + 1]
    /\ UNCHANGED app
\* the handler: process.terminate() (dev.py:47-48)
HandlerTerminates ==
    /\ dev.pc = "interrupted"
    /\ dev' = [dev EXCEPT !.pc = "interrupted_waiting"]
    /\ UNCHANGED app
\* the handler: process.wait(timeout=5) returns (dev.py:50)
HandlerWaitReturns ==
    /\ dev.pc = "interrupted_waiting"
    /\ dev.process \notin dev.alive
    /\ dev' = [dev EXCEPT !.pc = "goodbye"]
    /\ UNCHANGED app
\* the handler: TimeoutExpired, process.kill(), process.wait() (dev.py:51-53)
HandlerWaitTimesOut ==
    /\ dev.pc = "interrupted_waiting"
    /\ dev.process \in dev.alive
    /\ dev' = [dev EXCEPT !.pc = "goodbye", !.alive = dev.alive \ {dev.process}]
    /\ UNCHANGED app

DevEnv ==
    [ messages |-> {}, raws |-> {}, replies |-> {}, fragments |-> {}, db |-> {},
      turns |-> 0, chunks |-> 0, days |-> 1 ]
InitDev == Start(DevEnv)
NextDev ==
    \/ SpawnFirst
    \/ Bind
    \/ Change
    \/ ChildExits
    \/ WaitReturns
    \/ WaitTimesOut
    \/ Respawn
    \/ Interrupt
    \/ HandlerTerminates
    \/ HandlerWaitReturns
    \/ HandlerWaitTimesOut
SpecDev == InitDev /\ [][NextDev]_vars
\* ================================================================ claims
IsPrefix(p, q) == Len(p) <= Len(q) /\ SubSeq(q, 1, Len(p)) = p
LastTurn(h) == h[Len(h)]
IsFragment(f) == f # ""
\* the concatenation of the chunks of a stream, in arrival order
Concat(chunks) == SelectSeq(chunks, IsFragment)

\* Texts in which structured extraction fails, told from the text alone: no text,
\* no '{' followed by a '}', or prose between the first '{' and the last '}'.
BracePairs(text) ==
    {p \in (1..Len(text)) \X (1..Len(text)) :
        p[1] < p[2] /\ text[p[1]].tok = "{" /\ text[p[2]].tok = "}"}
Unparseable(text) ==
    \/ Len(text) = 0
    \/ BracePairs(text) = {}
    \/ \E p \in BracePairs(text) : \E i \in (p[1] + 1)..(p[2] - 1) : text[i].tok = "w"
\* total_calories of a text that holds one object, 0 when the key is absent
CaloriePairs(text) == {i \in 1..Len(text) : text[i].tok = "pair" /\ text[i].k = "total_calories"}
CaloriesOf(text) ==
    IF CaloriePairs(text) = {} THEN Num(0) ELSE text[SetMax(CaloriePairs(text))].v
MacroOf(text, key) ==
    LET at == {i \in 1..Len(text) : text[i].tok = "pair" /\ text[i].k = key}
    IN  IF at = {} THEN Num(0) ELSE text[SetMax(at)].v

MacroPairs(text) ==
    {i \in 1..Len(text) : text[i].tok = "pair" /\ text[i].k # "total_calories"}

\* C1: for every submission the user's message is appended to the transcript, with
\* an empty assistant side, before any model call of that submission is issued:
\* whenever a call of the turn has been issued, the turn is already in the transcript.
C1_UserTurnBeforeAnyCall ==
    \A s \in Sessions :
        sess[s].calls # <<>> =>
            /\ Len(sess[s].shown) = sess[s].base + 1
            /\ LastTurn(sess[s].shown).user.text = Strip(sess[s].message)

\* C2: every read or write of the accumulated total happens with the stored date
\* equal to the current date (the day check ran first).
C2_AccessOnCurrentDate == access.stored = access.now

\* C3: the first submission processed after the date changed sees a total of 0 with
\* the goal unchanged; what it publishes is (0, goal, 0.0), and within that turn the
\* total holds nothing but the turn's own meal.
C3_NoCarryOver ==
    [][\A s \in Sessions :
        /\ (sess[s].pc \in Terminal /\ sess'[s].nturns = sess[s].nturns + 1
              /\ today # current_date) =>
                /\ daily_calories' = 0
                /\ daily_goal' = daily_goal
                /\ current_date' = today
                /\ sess'[s].pc # "extracting" =>
                      /\ progress'.consumed = 0
                      /\ progress'.goal = daily_goal
                      /\ progress'.pct_num = 0
                /\ sess'[s].pc = "text_appended" => sess'[s].prompt.total_today = 0
        /\ (sess[s].rolled /\ sess[s].pc = "naming" /\ sess'[s].pc = "image_appended") =>
                /\ daily_calories' = CaloriesOf(sess[s].initial_analysis).n
                /\ progress'.consumed = daily_calories'
      ]_vars

\* a turn that began on a new day with 450 calories left from the day before
C3_Witness ==
    \E s \in Sessions :
        /\ sess[s].rolled
        /\ sess[s].pre_total = 450
        /\ sess[s].pc = "text_appended"
        /\ progress.consumed = 0

\* C4: for an image submission whose extraction text decodes to a nutrition object
\* and whose meal was stored, the total is the total of the turn's start plus the
\* object's total_calories (0 if absent), exactly one record with the object's
\* calorie and macro values was stored, and the narrative prompt embeds the meal
\* calories and the new total.
C4_MealAccounted ==
    \A s \in Sessions :
        LET me == sess[s]
            text == me.initial_analysis
        IN  (me.pc \in {"image_appended", "narrating"} /\ me.parsed = "object"
               /\ Len(foods) > me.foods_base) =>
                /\ daily_calories = me.start_total + CaloriesOf(text).n
                /\ Len(foods) = me.foods_base + 1
                /\ LET row == foods[Len(foods)]
                   IN  /\ row.calories = CaloriesOf(text)
                       /\ {"fats", "proteins", "carbs"} \subseteq DOMAIN row
                       /\ row.fats = MacroOf(text, "total_fats_g")
                       /\ row.proteins = MacroOf(text, "total_proteins_g")
                       /\ row.carbs = MacroOf(text, "total_carbs_g")
                /\ me.prompt.meal_added = CaloriesOf(text).n
                /\ me.prompt.total_today = daily_calories

\* C5: when the extraction text is unparseable, the step that analyses it leaves the
\* total and the stored meals unchanged and goes on to the narrative request with
\* the fallback prompt; the turn does not fail.
C5_UnparseableKeepsTotal ==
    [][\A s \in Sessions :
        (sess[s].pc = "naming" /\ sess'[s].pc # "naming"
           /\ Unparseable(sess[s].initial_analysis)) =>
            /\ daily_calories' = daily_calories
            /\ foods' = foods
            /\ sess'[s].pc = "image_appended"
            /\ sess'[s].prompt.kind \in {"message+fallback", "image+fallback"}
      ]_vars

\* an unparseable extraction text whose turn reached the narrative stream
C5_Witness ==
    \E s \in Sessions :
        /\ sess[s].pc = "narrating"
        /\ sess[s].parsed = "invalid"
        /\ sess[s].arrived # <<>>
        /\ foods = <<>>

\* the extraction text as it would be displayed, token by token
Verbatim(text) ==
    [i \in 1..Len(text) |-> IF text[i].tok = "pair" THEN text[i].k ELSE text[i].tok]

C7_FailureKeepsStartTotal ==
    [][\A s \in Sessions :
        (sess[s].pc \in {"extracting", "narrating", "conversing"}
           /\ sess'[s].pc = "failed") =>
            /\ LastTurn(sess'[s].shown).assistant \in FailureTexts
            /\ daily_calories' = sess[s].start_total
      ]_vars

\* C7 amended: if a model invocation of a turn fails, the turn ends Failed with an
\* inline failure message and the failure itself leaves the total as it was: after a
\* failed extraction call or conversational stream that is the total the turn's day
\* check left; after a failed narrative stream it is that total plus the calories
\* of the meal the turn had already added before the stream was requested.
C7_FailureKeepsTotal ==
    [][\A s \in Sessions :
        (sess[s].pc \in {"extracting", "narrating", "conversing"}
           /\ sess'[s].pc = "failed") =>
            /\ LastTurn(sess'[s].shown).assistant \in FailureTexts
            /\ Len(sess'[s].shown) = sess[s].base + 1
            /\ daily_calories' = daily_calories
            /\ sess[s].pc \in {"extracting", "conversing"} =>
                  daily_calories' = sess[s].start_total
            /\ sess[s].pc = "narrating" =>
                  daily_calories' =
                      sess[s].start_total
                        + (IF Unparseable(sess[s].initial_analysis) THEN 0
                           ELSE CaloriesOf(sess[s].initial_analysis).n)
      ]_vars

\* a narrative stream failed after the turn had added a meal of 450
C7_Witness ==
    \E s \in Sessions :
        /\ sess[s].pc = "failed"
        /\ LastTurn(sess[s].shown).assistant = TroubleAnalyzing
        /\ daily_calories = 450
        /\ foods # <<>>

\* C8: if a stream raises after at least one fragment was appended and published,
\* the assistant text after the failure still has those fragments as a prefix.
C8_PartialTextRetained ==
    [][\A s \in Sessions :
        (sess[s].pc \in Streaming /\ sess'[s].pc = "failed"
           /\ sess[s].ai_response # <<>>) =>
            IsPrefix(sess[s].ai_response, LastTurn(sess'[s].shown).assistant)
      ]_vars

\* C9 as stated: while a stream is arriving, one snapshot is published per
\* arriving fragment.
C9_SnapshotPerChunk ==
    \A s \in Sessions :
        sess[s].pc \in Streaming => sess[s].published = Len(sess[s].arrived)

\* C9 amended: while a stream is arriving the assistant text of the turn is
\* append-only: a non-empty fragment extends the published text by exactly that
\* fragment and publishes one snapshot, an empty fragment publishes nothing and
\* changes nothing, and when the stream ends the assistant text is the
\* concatenation of all fragments in arrival order.
C9_AppendOnlyStream ==
    [][\A s \in Sessions :
        LET old == LastTurn(sess[s].shown).assistant
            new == LastTurn(sess'[s].shown).assistant
        IN  /\ (sess[s].pc \in Streaming /\ sess'[s].pc \in Streaming) =>
                /\ IsPrefix(old, new)
                /\ sess'[s].published = Len(new)
                /\ sess'[s].arrived # sess[s].arrived =>
                      LET f == sess'[s].arrived[Len(sess'[s].arrived)]
                      IN  IF f # ""
                          THEN /\ new = old \o <<f>>
                               /\ sess'[s].published = sess[s].published + 1
                          ELSE /\ new = old
                               /\ sess'[s].published = sess[s].published
            /\ (sess[s].pc \in Streaming /\ sess'[s].pc = "complete") =>
                /\ new = Concat(sess[s].arrived)
                /\ Len(sess'[s].shown) = Len(sess[s].shown)
      ]_vars

\* two fragments have arrived and both are shown, in order
C9_Witness ==
    \E s \in Sessions :
        /\ sess[s].pc \in Streaming
        /\ sess[s].arrived = <<"a", "b">>
        /\ LastTurn(sess[s].shown).assistant = <<"a", "b">>
        /\ sess[s].published = 2

\* C10: every turn that reached a terminal state has non-empty assistant text.
C10_NoSilentTurn ==
    \A s \in Sessions :
        sess[s].pc \in {"complete", "failed"} =>
            \A i \in 1..Len(sess[s].shown) : sess[s].shown[i].assistant # <<>>

\* C11: a storage failure while the meal is persisted is swallowed.  The step that
\* analyses a decodable extraction text and stores no row ends exactly as the step
\* that stores one: the turn fails only if the calorie value cannot be added, and
\* otherwise it goes on to the narrative request with the user's turn appended
\* once, the narrative prompt built (with the meal's calories and the new total
\* unless the object is empty), and the total increased by the meal's calories.
C11_StorageFailureSwallowed ==
    [][\A s \in Sessions :
        LET text == sess[s].initial_analysis
            cal == CaloriesOf(text)
        IN  (sess[s].pc = "naming" /\ sess'[s].pc # "naming"
               /\ ~Unparseable(text) /\ foods' = foods) =>
                IF cal.t = "num"
                THEN /\ sess'[s].pc = "image_appended"
                     /\ daily_calories' = daily_calories + cal.n
                     /\ progress'.consumed = daily_calories'
                     /\ sess'[s].shown =
                            Append(sess[s].shown, Turn(UserImage(sess[s].message), <<>>))
                     /\ IF CaloriePairs(text) = {} /\ MacroPairs(text) = {}
                        THEN sess'[s].prompt.kind \in {"message+fallback", "image+fallback"}
                        ELSE /\ sess'[s].prompt.kind \in {"message+data", "image+data"}
                             /\ sess'[s].prompt.meal_added = cal.n
                             /\ sess'[s].prompt.total_today = daily_calories'
                ELSE /\ sess'[s].pc = "failed"
                     /\ daily_calories' = daily_calories
      ]_vars

\* a meal of 450 whose row could not be stored, its narrative under way
C11_Witness ==
    \E s \in Sessions :
        /\ sess[s].pc = "narrating"
        /\ sess[s].parsed = "object"
        /\ foods = <<>>
        /\ daily_calories = 450
        /\ sess[s].prompt.kind \in {"message+data", "image+data"}
        /\ sess[s].arrived # <<>>

\* the well-formed JSON objects of a text: a '{', members separated by commas, a '}'
WellFormedAt(text, i, j) ==
    /\ i < j /\ text[i].tok = "{" /\ text[j].tok = "}"
    /\ LET in == SelectSeq(SubSeq(text, i + 1, j - 1), NotWS)
       IN  \/ in = <<>>
           \/ /\ Len(in) % 2 = 1
              /\ \A n \in 1..Len(in) :
                    IF n % 2 = 1 THEN in[n].tok = "pair" ELSE in[n].tok = ","
Objects(text) == {p \in BracePairs(text) : WellFormedAt(text, p[1], p[2])}
FourKeys == {"total_calories", "total_fats_g", "total_proteins_g", "total_carbs_g"}
KeysAt(text, p) == {text[n].k : n \in {m \in p[1]..p[2] : text[m].tok = "pair"}}
ValueAt(text, p, key) ==
    text[SetMax({n \in p[1]..p[2] : text[n].tok = "pair" /\ text[n].k = key})].v
\* exactly one well-formed object, carrying the four keys with numeric values
OneFullObject(text) ==
    /\ Cardinality(Objects(text)) = 1
    /\ \A p \in Objects(text) :
          /\ KeysAt(text, p) = FourKeys
          /\ \A key \in FourKeys : ValueAt(text, p, key).t = "num"
TheObject(text) == CHOOSE p \in Objects(text) : TRUE

\* C12: for any extraction text that holds exactly one well-formed JSON object with
\* the four expected keys, whatever prose stands before and after it, the object is
\* decoded and the record used by the turn carries exactly those four values.
C12_ObjectRecovered ==
    \A s \in Sessions :
        LET text == sess[s].initial_analysis
        IN  (sess[s].pc \in {"image_appended", "narrating"} /\ OneFullObject(text)) =>
                /\ sess[s].prompt.kind \in {"message+data", "image+data"}
                /\ sess[s].prompt.calories = ValueAt(text, TheObject(text), "total_calories")
                /\ sess[s].prompt.fats = ValueAt(text, TheObject(text), "total_fats_g")
                /\ sess[s].prompt.proteins = ValueAt(text, TheObject(text), "total_proteins_g")
                /\ sess[s].prompt.carbs = ValueAt(text, TheObject(text), "total_carbs_g")

\* what a turn shows of its extraction outcome besides the raw text itself: the
\* narrative prompt without the embedded text, the user's side of the turn, the
\* calories added and the rows stored
Outcome(s) ==
    [ prompt |-> [sess[s].prompt EXCEPT !.analysis = <<>>],
      user |-> LastTurn(sess[s].shown).user,
      added |-> daily_calories - sess[s].start_total,
      stored |-> Len(foods) - sess[s].foods_base ]
\* the outcome of a text without any brace span
NoSpanOutcome(message) ==
    [ prompt |-> [NoPrompt EXCEPT
                    !.kind = IF Strip(message) # "" THEN "message+fallback"
                             ELSE "image+fallback",
                    !.message = Strip(message)],
      user |-> UserImage(message),
      added |-> 0,
      stored |-> 0 ]

\* C13: an extraction text with a brace span that fails to decode and a text with
\* no brace span are both unparseable, and the outcome of the first differs from
\* the outcome of the second in some flag of the prompt, the transcript or the result.
C13_InvalidSpanFlagged ==
    \A s \in Sessions :
        LET text == sess[s].initial_analysis
        IN  (sess[s].pc \in {"image_appended", "narrating"} /\ Unparseable(text)) =>
                IF BracePairs(text) = {}
                THEN Outcome(s) = NoSpanOutcome(sess[s].message)
                ELSE Outcome(s) # NoSpanOutcome(sess[s].message)

\* C14: a decoded object that holds no total_calories (the empty object, or an
\* object with macros only) is not a valid record: no meal is persisted for it and
\* the narrative prompt does not use it as the parsed record.
C14_NoCaloriesNoMeal ==
    \A s \in Sessions :
        LET text == sess[s].initial_analysis
        IN  (sess[s].pc \in {"image_appended", "narrating"}
               /\ CaloriePairs(text) = {}) =>
                /\ Len(foods) = sess[s].foods_base
                /\ sess[s].prompt.kind \in {"message+fallback", "image+fallback"}

\* C15: in every reachable state the accumulated daily total is non-negative,
\* whatever calorie values the replies of the model hold.
C15_TotalNonNegative == daily_calories >= 0

\* C16: for every consumed total and goal the bar reports percent = consumed / goal
\* * 100 when goal > 0 and 0 otherwise, uncapped; the status is "remaining" below
\* 100, "goal reached" from 100 to 120 and "over goal" by consumed - goal above
\* 120; the visual width is min(percent, 100).
C16_ProgressFormula ==
    LET c == progress.consumed
        g == progress.goal
        pn == IF g > 0 THEN c * 100 ELSE 0
        pd == IF g > 0 THEN g ELSE 1
    IN  /\ progress.pct_den > 0 /\ progress.width_den > 0
        /\ progress.pct_num * pd = pn * progress.pct_den
        /\ progress.status =
              IF pn < 100 * pd THEN "remaining"
              ELSE IF pn <= 120 * pd THEN "goal reached"
              ELSE "over goal"
        /\ progress.status = "over goal" => progress.amount = c - g
        /\ progress.width_num * pd =
              (IF pn > 100 * pd THEN 100 * pd ELSE pn) * progress.width_den

\* 2500 of 2000: 125 percent, over goal by 500, width 100
C16_Witness ==
    /\ progress.consumed = 2500 /\ progress.goal = 2000
    /\ progress.pct_num * 1 = 125 * progress.pct_den
    /\ progress.status = "over goal" /\ progress.amount = 500
    /\ progress.width_num = 100 * progress.width_den

\* C17: a submitted profile with a name shorter than 2 characters, an age outside
\* 10..120, a height outside 100..250 or a weight outside 30..300 kg is rejected:
\* every violated rule adds its own message, the messages of one submission are
\* all distinct, and when a rule is violated nothing is saved and the stored
\* profile stays as it was.
C17_ValidationRejects ==
    [][modal' # modal =>
        LET f == modal'.form
            said == {modal'.errors[i] : i \in 1..Len(modal'.errors)}
            short_name == Len(f.name) < 2
            bad_age == f.age.given /\ (f.age.v < 10 \/ f.age.v > 120)
            bad_height == f.height.given /\ (f.height.v < 100 \/ f.height.v > 250)
            bad_weight == f.weight.given /\ (f.weight.v < 300 \/ f.weight.v > 3000)
        IN  /\ short_name => NameError \in said
            /\ bad_age => AgeError \in said
            /\ bad_height => HeightError \in said
            /\ bad_weight => WeightError \in said
            /\ Cardinality(said) = Len(modal'.errors)
            /\ Cardinality({NameError, AgeError, HeightError, WeightError}) = 4
            /\ (short_name \/ bad_age \/ bad_height \/ bad_weight) =>
                  /\ modal'.result = "errors"
                  /\ profile' = profile
      ]_vars

\* age 5 and height 90 submitted over a saved profile: two messages, profile kept
C17_Witness ==
    /\ modal.form.age = Val(5) /\ modal.form.height = Val(90)
    /\ modal.result = "errors"
    /\ modal.errors = <<AgeError, HeightError>>
    /\ profile # NoProfile

\* the tables of the profile calculation: activity multipliers in thousandths
\* (1.55 for a value outside the table), goal multipliers in tenths
MultiplierOf(activity) ==
    IF activity = "sedentary" THEN 1200
    ELSE IF activity = "light" THEN 1375
    ELSE IF activity = "active" THEN 1725
    ELSE IF activity = "very_active" THEN 1900
    ELSE 1550
AdjustmentOf(goal_type) ==
    IF goal_type = "lose_slow" THEN 9
    ELSE IF goal_type = "lose_fast" THEN 8
    ELSE IF goal_type = "gain_slow" THEN 11
    ELSE IF goal_type = "gain_fast" THEN 12
    ELSE 10
IsSaved(p) == "bmr" \in p.keys
\* four times 10 * weight + 6.25 * height - 5 * age + (5 or -161), weight in tenths of a kg
Bmr4(p) ==
    4 * p.weight_kg + 25 * p.height_cm - 20 * p.age
      + (IF p.gender = "male" THEN 20 ELSE -644)

\* male, 30 years, 180 cm, 80 kg, moderate activity, goal maintain
IsExample(p) ==
    /\ p.gender = "male" /\ p.age = 30 /\ p.height_cm = 180 /\ p.weight_kg = 800
    /\ p.activity_level = "moderate" /\ p.goal_type = "maintain"

\* C18 as stated: maintenance is bmr times the activity multiplier rounded to the
\* nearest integer, and target is maintenance times the goal multiplier; the
\* example profile has bmr 1742.5, maintenance 2700 and target 2700.
C18_RoundedCalories ==
    IsSaved(profile) =>
        LET exact == Bmr4(profile) * MultiplierOf(profile.activity_level)
            m == profile.maintenance_calories
        IN  /\ profile.bmr = Bmr4(profile)
            /\ 2 * (exact - 4000 * m) <= 4000
            /\ 2 * (4000 * m - exact) <= 4000
            /\ 10 * profile.target_calories = m * AdjustmentOf(profile.goal_type)
            /\ IsExample(profile) =>
                  /\ profile.bmr = 6970
                  /\ m = 2700
                  /\ profile.target_calories = 2700

\* C18 amended: bmr = 10 * weight + 6.25 * height - 5 * age + (5 if male else
\* -161); maintenance is bmr times the activity multiplier (1.55 for an activity
\* outside the table) with the fraction cut off (int(), not rounding), and target
\* is maintenance times the goal multiplier (1.0 for a goal outside the table)
\* with the fraction cut off; male, 30, 180 cm, 80 kg, moderate, maintain gives
\* bmr 800 + 1125 - 150 + 5 = 1780, maintenance int(1780 * 1.55) = 2759 and
\* target 2759.
C18_TruncatedCalories ==
    IsSaved(profile) =>
        LET exact == Bmr4(profile) * MultiplierOf(profile.activity_level)
            m == profile.maintenance_calories
            t == profile.target_calories
            scaled == m * AdjustmentOf(profile.goal_type)
        IN  /\ profile.bmr = Bmr4(profile)
            /\ Bmr4(profile) > 0
            /\ 4000 * m <= exact /\ exact < 4000 * (m + 1)
            /\ 10 * t <= scaled /\ scaled < 10 * (t + 1)
            /\ modal.result = "saved" => modal.calories = t
            /\ IsExample(profile) =>
                  /\ profile.bmr = 7120
                  /\ m = 2759
                  /\ t = 2759

\* the example profile, saved with bmr 1780, maintenance 2759 and target 2759
C18_Witness ==
    /\ IsSaved(profile)
    /\ IsExample(profile)
    /\ profile.bmr = 7120
    /\ profile.maintenance_calories = 2759
    /\ profile.target_calories = 2759
    /\ modal.result = "saved"

\* C19: the daily accumulator is shared without locking.  The store of an addition
\* writes the value its handler loaded plus that handler's meal, whatever another
\* handler stored in between, so with two concurrent image submissions the total
\* can hold the last write only instead of the sum of both meals.
C19_LastWriteWins ==
    [][\A s \in Sessions :
        (sess[s].pc = "adding" /\ sess'[s].pc # "adding") =>
            /\ daily_calories' = sess[s].loaded + CaloriesOf(sess[s].initial_analysis).n
            /\ sess'[s].prompt.total_today = daily_calories'
      ]_vars

\* two tabs, both turns began at a total of 0 and both added their meal of 450:
\* two meals are stored and the total is 450
C19_Witness ==
    /\ \A s \in {1, 2} :
          /\ s \in Sessions
          /\ sess[s].pc \in {"image_appended", "narrating"}
          /\ sess[s].parsed = "object"
          /\ sess[s].start_total = 0
          /\ sess[s].prompt.meal_added = 450
    /\ Len(foods) = 2
    /\ daily_calories = 450

C21_ExtractionFailureEndsTurn ==
    [][\A s \in Sessions :
        /\ (sess[s].pc = "extracting" /\ sess'[s].pc # "extracting") =>
              sess'[s].pc \in {"naming", "failed"}
        /\ (sess[s].pc = "extracting" /\ sess'[s].pc = "failed") =>
              /\ sess[s].calls = <<"extraction">>
              /\ sess'[s].calls = <<>>
              /\ sess'[s].shown =
                     Append(sess[s].shown,
                            Turn(UserError(sess[s].message), ProcessingFailed))
              /\ Len(sess'[s].shown) = sess[s].base + 1
              /\ foods' = foods
              /\ Len(foods) = sess[s].foods_base
              /\ daily_calories' = daily_calories
              /\ daily_calories = sess[s].start_total
              /\ progress'.consumed = daily_calories
      ]_vars

\* the second submission of the day failed at its extraction request, after a
\* meal of 450 was stored and counted by the first
C21_Witness ==
    \E s \in Sessions :
        /\ sess[s].pc = "failed"
        /\ sess[s].nturns = 2
        /\ Len(sess[s].shown) = 2
        /\ LastTurn(sess[s].shown).assistant = ProcessingFailed
        /\ Len(foods) = 1
        /\ daily_calories = 450

\* C22: a failure of the naming request, or an empty or over-long name reply, never
\* fails the turn.  The step out of the naming request fails only when the decoded
\* calorie value cannot be added, whatever the naming request did; otherwise the
\* user's turn is appended, the total grows by the meal's calories and the turn
\* goes on to the narrative request.  A row stored by the step carries either the
\* name the model gave or the placeholder, never an empty or over-long name, and
\* carries the calories of the extraction text.
C22_NamingNeverFailsTurn ==
    [][\A s \in Sessions :
        LET text == sess[s].initial_analysis
            cal == CaloriesOf(text)
            addable == Unparseable(text) \/ cal.t = "num"
        IN  (sess[s].pc = "naming" /\ sess'[s].pc # "naming") =>
              /\ sess'[s].pc = IF addable THEN "image_appended" ELSE "failed"
              /\ addable =>
                    /\ daily_calories' =
                          daily_calories + (IF Unparseable(text) THEN 0 ELSE cal.n)
                    /\ sess'[s].shown =
                          Append(sess[s].shown, Turn(UserImage(sess[s].message), <<>>))
                    /\ sess'[s].calls = <<"extraction", "naming">>
              /\ foods' # foods =>
                    /\ ~Unparseable(text)
                    /\ foods' = Append(foods, LastTurn(foods'))
                    /\ LastTurn(foods').name \in {"Pizza", Placeholder}
                    /\ LastTurn(foods').calories = cal
      ]_vars

\* the narrative of a meal stored under the placeholder name is under way
C22_Witness ==
    \E s \in Sessions :
        /\ sess[s].pc = "narrating"
        /\ sess[s].arrived # <<>>
        /\ Len(foods) = 1
        /\ foods[1].name = Placeholder
        /\ daily_calories = 450

\* the figure a narrative prompt shows for a key
PromptField(prompt, key) ==
    CASE key = "total_calories" -> prompt.calories
      [] key = "total_fats_g" -> prompt.fats
      [] key = "total_proteins_g" -> prompt.proteins
      [] OTHER -> prompt.carbs
KeyPairs(text, key) == {i \in 1..Len(text) : text[i].tok = "pair" /\ text[i].k = key}

\* C23: when decoding succeeds but some of the four keys are absent, the narrative
\* prompt is the one that shows the nutrition figures, each absent key appears in
\* it as 'N/A' and each present key with its value; the absence of a macro key
\* never fails the turn.
C23_AbsentKeysShownNA ==
    [][\A s \in Sessions :
        LET text == sess[s].initial_analysis
        IN  (sess[s].pc = "naming" /\ sess'[s].pc # "naming"
               /\ ~Unparseable(text)
               /\ \E key \in FourKeys : KeyPairs(text, key) = {}) =>
              /\ CaloriesOf(text).t = "num" => sess'[s].pc = "image_appended"
              /\ sess'[s].pc = "image_appended" =>
                    /\ sess'[s].prompt.kind \in {"message+data", "image+data"}
                    /\ \A key \in FourKeys :
                          PromptField(sess'[s].prompt, key) =
                              IF KeyPairs(text, key) = {} THEN NA
                              ELSE text[SetMax(KeyPairs(text, key))].v
      ]_vars

\* C24: in every reachable state the daily goal is a positive number: 2000 when no
\* profile is saved, and otherwise the target_calories of the latest saved profile,
\* whatever sequence of profile saves and goal refreshes led there.
C24_GoalFollowsProfile ==
    /\ daily_goal > 0
    /\ daily_goal = IF profile.keys = {} THEN DefaultGoal ELSE profile.target_calories

\* C25: a restart of the process sets the accumulated total back to 0 and derives
\* the goal again from the stored profile, while every meal record persisted before
\* the restart stays in storage unchanged; the total is not rebuilt from the
\* records.  In a process that has handled no event since its start the total is 0
\* and the bar shows 0 against the goal of the stored profile, whatever the
\* storage holds; the step that leads there leaves the stored rows as they were,
\* and only a successful save changes the stored profile.
C25_RestartLosesTotalOnly ==
    /\ []((access.op = "init" /\ modal.result = "none") =>
            /\ daily_calories = 0
            /\ daily_goal = IF profile.keys = {} THEN DefaultGoal
                            ELSE profile.target_calories
            /\ progress.consumed = 0
            /\ progress.goal = daily_goal
            /\ \A s \in Sessions : sess[s].shown = <<>>)
    /\ [][/\ access'.op = "init" => foods' = foods
          /\ IsPrefix(foods, foods')
          /\ profile' # profile => modal'.result = "saved"
       ]_vars

\* the process was started again after a meal of 450 was stored and counted and a
\* profile was saved: the row is there, the total is 0, the goal is the profile's
C25_Witness ==
    /\ access.op = "init"
    /\ modal.result = "none"
    /\ Len(foods) = 1
    /\ foods[1].calories = Num(450)
    /\ daily_calories = 0
    /\ profile.keys # {}
    /\ daily_goal = profile.target_calories
    /\ daily_goal # DefaultGoal
    /\ \E s \in Sessions : sess[s].nturns = 1

\* C26: after any sequence of profile saves, loading the profile returns exactly the
\* data of the most recent successful save, with no trace of earlier profiles, and
\* a save that reports failure (or a form that is rejected) leaves the profile that
\* a later load returns unchanged.
C26_LatestSaveOnly ==
    [][/\ modal'.result = "saved" =>
             profile' = ProfileData(modal'.form.name, modal'.form.age, modal'.form.gender,
                                    modal'.form.height, modal'.form.weight,
                                    modal'.form.activity, modal'.form.goal_type)
       /\ modal'.result \in {"save failed", "errors"} => profile' = profile
      ]_vars

\* the steps of a text-only submission: its arrival (with text, blank, or failing
\* before the stream) and every step until its stream ends
TextArrives(s) ==
    /\ sess[s].pc \in Terminal
    /\ sess'[s].nturns = sess[s].nturns + 1
    /\ \/ sess'[s].pc \in {"text_appended", "complete"}
       \/ /\ sess'[s].pc = "failed"
          /\ LastTurn(sess'[s].shown).user.tag = ""
TextGoesOn(s) ==
    /\ sess[s].pc \in {"text_appended", "conversing"}
    /\ sess'[s] # sess[s]
BlankArrives(s) == TextArrives(s) /\ sess'[s].pc = "complete"

\* C27 as stated: a text-only submission never changes the accumulated total, the
\* goal or the persisted meal records, whether its stream completes or fails; with
\* blank text it leaves the transcript unchanged as well and issues no model call.
C27_TextChangesNothing ==
    [][\A s \in Sessions :
        /\ (TextArrives(s) \/ TextGoesOn(s)) =>
              /\ daily_calories' = daily_calories
              /\ daily_goal' = daily_goal
              /\ foods' = foods
        /\ BlankArrives(s) =>
              /\ sess'[s].shown = sess[s].shown
              /\ sess'[s].calls = <<>>
      ]_vars

\* C27 as the code has it: a text-only submission never changes the goal or the
\* persisted meal records, and changes the accumulated total only by the day check
\* at its arrival, which sets it to 0 when the date has changed; with blank text
\* it leaves the transcript unchanged as well and issues no model call.
C27_TextChangesTotalOnlyByDayCheck ==
    [][\A s \in Sessions :
        /\ TextArrives(s) =>
              /\ daily_calories' = IF today # current_date THEN 0 ELSE daily_calories
              /\ daily_goal' = daily_goal
              /\ foods' = foods
        /\ TextGoesOn(s) =>
              /\ daily_calories' = daily_calories
              /\ daily_goal' = daily_goal
              /\ foods' = foods
              /\ sess'[s].calls \in {<<>>, <<"conversational">>}
        /\ BlankArrives(s) =>
              /\ sess'[s].shown = sess[s].shown
              /\ sess'[s].calls = <<>>
              /\ sess[s].pc = "idle" => sess'[s].shown = <<>>
      ]_vars

\* a question asked after a meal of 450 was counted, its stream ended: the total
\* and the stored row are as the meal left them
C27_Witness ==
    \E s \in Sessions :
        /\ sess[s].pc \in {"complete", "failed"}
        /\ sess[s].nturns = 2
        /\ Len(sess[s].shown) = 2
        /\ LastTurn(sess[s].shown).user = UserText("hi")
        /\ daily_calories = 450
        /\ Len(foods) = 1

\* C28: each submission appends at most one turn to the transcript, on every path
\* including every failure path, and only ever rewrites that last turn.  The step
\* with which a submission arrives keeps the whole transcript and adds at most one
\* turn; every later step of the turn keeps the turns that existed when the
\* submission arrived and leaves the transcript at most one turn longer than it
\* was then; no other step touches the transcript.
C28_OneTurnPerSubmission ==
    [][\A s \in Sessions :
        LET old == sess[s].shown
            new == sess'[s].shown
        IN  IF sess'[s].nturns = sess[s].nturns + 1
            THEN /\ IsPrefix(old, new)
                 /\ Len(new) <= Len(old) + 1
                 /\ IsPrefix(old, sess'[s].history)
                 /\ Len(sess'[s].history) <= Len(old) + 1
            ELSE IF sess[s].pc \notin Terminal
            THEN /\ sess[s].base <= Len(old)
                 /\ SubSeq(new, 1, sess[s].base) = SubSeq(old, 1, sess[s].base)
                 /\ Len(new) >= Len(old)
                 /\ Len(new) <= sess[s].base + 1
                 /\ SubSeq(sess'[s].history, 1, sess[s].base) = SubSeq(old, 1, sess[s].base)
                 /\ Len(sess'[s].history) <= sess[s].base + 1
            ELSE new = old
      ]_vars

\* the second submission failed after its turn was appended and rewritten with
\* the failure message; the turn of the first submission, a complete answer, is
\* as it was
C28_Witness ==
    \E s \in Sessions :
        /\ sess[s].pc = "failed"
        /\ sess[s].nturns = 2
        /\ Len(sess[s].shown) = 2
        /\ sess[s].shown[1].assistant = <<"a">>
        /\ sess[s].shown[2].assistant \in {TroubleAnalyzing, TroubleResponding}

\* C29: in every turn in which a meal record is persisted, the daily total is
\* increased in that same turn by exactly the persisted calories value and the turn
\* proceeds to the narrative request, whatever value the decoded object holds under
\* total_calories: no step stores a row and ends the turn failed.
C29_PersistedMeansCounted ==
    [][\A s \in Sessions :
        (sess[s].pc = "naming" /\ sess'[s].pc # "naming"
           /\ Len(foods') = Len(foods) + 1) =>
            /\ sess'[s].pc = "image_appended"
            /\ daily_calories' = daily_calories + LastTurn(foods').calories.n
      ]_vars

\* C30: a click on the reset button runs two handlers that both render the progress
\* display; in every ordering and interleaving of the two, once both have finished
\* the accumulated total is 0 and the progress display last published shows 0
\* calories consumed against the current goal.
C30_ResetShowsZero ==
    (click = {} /\ access.op \in {"refresh_goal_from_profile", "reset_calories"}) =>
        /\ daily_calories = 0
        /\ progress.consumed = 0
        /\ progress.goal = daily_goal

\* C31: under the hot-reload server at most one application process is alive at
\* any time; on each detected change the current process has exited before the
\* replacement is started; and once the server has ended after a keyboard
\* interrupt, delivered at any point, no application process is left running.
C31_OneProcessNoneLeft ==
    /\ Cardinality(dev.alive) <= 1
    /\ dev.pc = "respawn" => dev.alive = {}
    /\ (dev.interrupts > 0 /\ dev.pc \in {"goodbye", "crashed"}) => dev.alive = {}

====
